---- MODULE Spec2Model ----
(***************************************************************************)
(* A model of geomstats' hypersphere geometry (geometry/hypersphere.py)    *)
(* and of the numpy linear-algebra backend (_backend/numpy/linalg.py).     *)
(*                                                                         *)
(* The code is purely functional: the only state an object holds is the    *)
(* manifold dimension fixed by the constructor.  Each action below is one  *)
(* call of one method; it records the call's arguments and its outcome.    *)
(*                                                                         *)
(* Floating-point numbers are modelled as fixed-point numbers: the integer *)
(* X stands for the real X / SCALE, and every arithmetic operation rounds  *)
(* its result to the nearest representable number, as IEEE arithmetic      *)
(* does.  Non-finite results are kept: NAN absorbs every operation and INF *)
(* is the quotient of a nonzero number by zero.                            *)
(***************************************************************************)
EXTENDS Integers, Sequences, FiniteSets, TLC

VARIABLES dimension, op, args, result, warned

vars == <<dimension, op, args, result, warned>>

----------------------------------------------------------------------------
(* Numbers *)

\* The number of decimal digits kept after the point.
DIGITS == 4

\* One unit of the last place is 1 / SCALE.
SCALE == 10 ^ DIGITS

\* Finite numbers lie strictly between -MAXV and MAXV.
MAXV == 2 ^ 29

NAN == MAXV + 1

INF == MAXV + 2

IsFin(x) == x > -MAXV /\ x < MAXV

Abs(x) == IF x < 0 THEN -x ELSE x

Sign(x) == IF x < 0 THEN -1 ELSE 1

\* A result out of range is not finite.
Fin(x) == IF IsFin(x) THEN x ELSE NAN

ONE == SCALE

Neg(a) == IF IsFin(a) THEN -a ELSE NAN

Add(a, b) == IF IsFin(a) /\ IsFin(b) THEN Fin(a + b) ELSE NAN

Sub(a, b) == IF IsFin(a) /\ IsFin(b) THEN Fin(a - b) ELSE NAN

\* round(n / d) for n >= 0, d > 0, halves rounded up.
RoundDiv(n, d) == (n \div d) + (IF 2 * (n % d) >= d THEN 1 ELSE 0)

\* round(x * y / SCALE) for x, y >= 0; NAN when out of range.  The product
\* is formed from the integer and fractional parts of x so that no
\* intermediate value leaves the machine's integers.
MulAbs(x, y) ==
    LET xq == x \div SCALE
        xr == x % SCALE
        yq == y \div SCALE
        yr == y % SCALE
    IN  IF xq > 0 /\ y > (MAXV \div xq) THEN NAN
        ELSE Fin(xq * y + xr * yq + RoundDiv(xr * yr, SCALE))

\* The magnitude m with the sign s; a NAN stays a NAN.
Signed(s, m) == IF m = NAN THEN NAN ELSE s * m

Mul(a, b) ==
    IF ~(IsFin(a) /\ IsFin(b)) THEN NAN
    ELSE Signed(Sign(a) * Sign(b), MulAbs(Abs(a), Abs(b)))

RECURSIVE FracDiv(_, _, _)
\* round(r * 10^k / d) for 0 <= r < d.
FracDiv(r, d, k) ==
    IF k = 0 THEN (IF 2 * r >= d THEN 1 ELSE 0)
    ELSE LET t == 10 * r
         IN  (t \div d) * (10 ^ (k - 1)) + FracDiv(t % d, d, k - 1)

\* round(x * SCALE / y) for x >= 0, y > 0; NAN when out of range.
DivAbs(x, y) ==
    LET q == x \div y
    IN  IF q >= (MAXV \div SCALE) THEN NAN
        ELSE Fin(q * SCALE + FracDiv(x % y, y, DIGITS))

RECURSIVE Div(_, _)
\* x / 0 is INF for x # 0 and NAN for x = 0; x / INF is 0.
Div(a, b) ==
    IF ~IsFin(a) THEN NAN
    ELSE IF b = INF THEN 0
    ELSE IF ~IsFin(b) THEN NAN
    ELSE IF b = 0 THEN (IF a = 0 THEN NAN ELSE INF)
    ELSE IF Abs(b) >= (MAXV \div 16)
         THEN Div(Sign(a) * RoundDiv(Abs(a), 1000),
                  Sign(b) * RoundDiv(Abs(b), 1000))
    ELSE Signed(Sign(a) * Sign(b), DivAbs(Abs(a), Abs(b)))

RECURSIVE ISqrtIn(_, _, _)
\* The largest r in lo..hi with r * r <= n.
ISqrtIn(n, lo, hi) ==
    IF lo >= hi THEN lo
    ELSE LET mid == (lo + hi + 1) \div 2
         IN  IF mid * mid <= n THEN ISqrtIn(n, mid, hi)
             ELSE ISqrtIn(n, lo, mid - 1)

\* round(sqrt(n)) for 0 <= n < 2^31.
ISqrt(n) ==
    LET r == ISqrtIn(n, 0, 46340)
    IN  IF n - r * r > r THEN r + 1 ELSE r

RECURSIVE SqrtNewton(_, _, _)
\* k Newton steps r <- (r + a / r) / 2 towards sqrt(a), a > 0, r > 0.
SqrtNewton(a, r, k) ==
    IF k = 0 THEN r
    ELSE SqrtNewton(a, RoundDiv(r + DivAbs(a, r), 2), k - 1)

\* sqrt, rounded to nearest; the square root of a negative number is NAN.
Sqrt(a) ==
    IF ~IsFin(a) \/ a < 0 THEN NAN
    ELSE IF a <= (MAXV \div SCALE) THEN ISqrt(a * SCALE)
    ELSE SqrtNewton(a, ISqrt(a) * (10 ^ (DIGITS \div 2)), 3)

----------------------------------------------------------------------------
(* The elementary functions of the array backend (gs.sin, gs.cos, gs.tan,  *)
(* gs.arccos), each accurate to about one unit of the last place.          *)

\* pi = 355/113 to the precision kept; a multiple of 4, so that pi/2 and
\* pi/4 are representable.
PI == 4 * RoundDiv(355 * SCALE, 4 * 113)

HALF_PI == PI \div 2

QUARTER_PI == PI \div 4

TWO_PI == 2 * PI

\* One Horner step 1 - x2 * u / d of a Taylor series, for x2, u >= 0.
Horner(x2, u, d) == ONE - RoundDiv(Mul(x2, u), d)

\* x - x^3/3! + x^5/5! - x^7/7! in Horner form, for x2 = x^2.
SinSeries(x, x2) ==
    Mul(x, Horner(x2, Horner(x2, Horner(x2, ONE, 42), 20), 6))

\* 1 - x^2/2! + x^4/4! - x^6/6! + x^8/8! in Horner form, for x2 = x^2.
CosSeries(x2) ==
    Horner(x2, Horner(x2, Horner(x2, Horner(x2, ONE, 56), 30), 12), 2)

\* sin and cos on [0, pi/4].
SinK(x) == SinSeries(x, Mul(x, x))

CosK(x) == CosSeries(Mul(x, x))

\* sin and cos on [0, pi/2].
SinQ(x) == IF x > QUARTER_PI THEN CosK(HALF_PI - x) ELSE SinK(x)

CosQ(x) == IF x > QUARTER_PI THEN SinK(HALF_PI - x) ELSE CosK(x)

\* sin and cos on [0, pi]: sin(pi - x) = sin x and cos(pi - x) = -cos x.
SinH(x) == SinQ(IF x > HALF_PI THEN PI - x ELSE x)

CosH(x) ==
    (IF x > HALF_PI THEN -1 ELSE 1) * CosQ(IF x > HALF_PI THEN PI - x ELSE x)

\* sin and cos of r in [0, 2 pi): sin(pi + x) = -sin x, cos(pi + x) = -cos x.
SinT(r) == (IF r > PI THEN -1 ELSE 1) * SinH(IF r > PI THEN r - PI ELSE r)

CosT(r) == (IF r > PI THEN -1 ELSE 1) * CosH(IF r > PI THEN r - PI ELSE r)

Sin(a) == IF ~IsFin(a) THEN NAN ELSE SinT(a % TWO_PI)

Cos(a) == IF ~IsFin(a) THEN NAN ELSE CosT(a % TWO_PI)

\* tan = sin / cos: INF where the cosine vanishes.
Tan(a) == Div(Sin(a), Cos(a))

RECURSIVE AsinNewton(_, _, _)
\* k Newton steps a <- a + (s - sin a) / cos a towards arcsin(s).
AsinNewton(s, a, k) ==
    IF k = 0 THEN a
    ELSE AsinNewton(s, a + Div(s - Sin(a), Cos(a)), k - 1)

\* arcsin on [0, sqrt(1/2)].
Asin(s) == AsinNewton(s, s, 4)

\* arccos on [-1, 1], from sin^2(t/2) = (1 - cos t) / 2; NAN elsewhere.
Arccos(c) ==
    IF ~IsFin(c) \/ c > ONE \/ c < -ONE THEN NAN
    ELSE (IF c >= 0 THEN 0 ELSE PI)
         + Sign(c) * 2 * Asin(ISqrt(((ONE - Abs(c)) * SCALE) \div 2))

\* numpy.isclose(a, b) with its default tolerances:
\* |a - b| <= 1e-8 + 1e-5 * |b|, and never for a non-finite number.
IsClose(a, b) ==
    /\ IsFin(a)
    /\ IsFin(b)
    /\ Abs(a - b) <= ((SCALE \div (10 ^ 3)) + Abs(b)) \div (10 ^ 5)

\* numpy.clip(x, lo, hi); a NAN stays a NAN.
Clip(x, lo, hi) ==
    IF ~IsFin(x) THEN NAN ELSE IF x < lo THEN lo ELSE IF x > hi THEN hi ELSE x

RECURSIVE Pow(_, _)
\* x ** k for an integer k >= 1, by repeated multiplication.
Pow(x, k) == IF k = 1 THEN x ELSE Mul(Pow(x, k - 1), x)

\* The number n / d, for integers n >= 0 and d > 0.
Ratio(n, d) == RoundDiv(n * SCALE, d)

----------------------------------------------------------------------------
(* Arrays.  A batch is a sequence of rows, each row a sequence of numbers.  *)
(* An argument is [rank |-> 1, rows |-> <<v>>] for a single vector and     *)
(* [rank |-> 2, rows |-> <<v1, ..., vn>>] for a batch of n vectors.        *)

\* The sequence f, held element by element.
Arr(f) == f \o <<>>

Single(v) == [rank |-> 1, rows |-> <<v>>]

Batch(vs) == [rank |-> 2, rows |-> vs]

\* gs.to_ndarray(x, to_ndim=2): a single vector becomes a batch of one.
ToNdarray(x) == x.rows

Max(a, b) == IF a > b THEN a ELSE b

\* Row i of a batch, a batch of one row standing for every row.
Bc(rows, i) == rows[IF Len(rows) = 1 THEN 1 ELSE i]

\* The outcome of a call: a value, or the exception raised.
Ok(v) == [err |-> "none", val |-> v]

Raise(e) == [err |-> e, val |-> <<>>]

RECURSIVE DotRange(_, _, _, _)
\* u[lo] * v[lo] + ... + u[hi] * v[hi], summed pairwise.
DotRange(u, v, lo, hi) ==
    IF lo > hi THEN 0
    ELSE IF lo = hi THEN Mul(u[lo], v[lo])
    ELSE LET mid == (lo + hi) \div 2
         IN  Add(DotRange(u, v, lo, mid), DotRange(u, v, mid + 1, hi))

Dot(u, v) == DotRange(u, v, 1, Len(u))

\* The ambient Euclidean metric: one inner product per sample, a batch of
\* one broadcast against a larger batch.
InnerProduct(a, b) ==
    Arr([i \in 1..Max(Len(a), Len(b)) |-> Dot(Bc(a, i), Bc(b, i))])

SquaredNorm(a) == InnerProduct(a, a)

Norm(a) == Arr([i \in 1..Len(a) |-> Sqrt(SquaredNorm(a)[i])])

\* gs.einsum('ni,nj->nj', coef, mat): row i of mat scaled by coef[i].
EinsumScale(coef, mat) ==
    Arr([i \in 1..Max(Len(coef), Len(mat)) |->
        Arr([k \in 1..Len(Bc(mat, i)) |-> Mul(Bc(coef, i), Bc(mat, i)[k])])])

\* Elementwise a + b and a - b of two batches, with broadcasting.
MatAdd(a, b) ==
    Arr([i \in 1..Max(Len(a), Len(b)) |->
        Arr([k \in 1..Len(Bc(a, i)) |-> Add(Bc(a, i)[k], Bc(b, i)[k])])])

MatSub(a, b) ==
    Arr([i \in 1..Max(Len(a), Len(b)) |->
        Arr([k \in 1..Len(Bc(a, i)) |-> Sub(Bc(a, i)[k], Bc(b, i)[k])])])

\* gs.tile(x, [n, 1]): the rows of x repeated n times.
Tile(x, n) == Arr([i \in 1..(n * Len(x)) |-> x[((i - 1) % Len(x)) + 1]])

----------------------------------------------------------------------------
(* Hypersphere *)

TOLERANCE == [num |-> 1, den |-> 10 ^ 6]

\* INV_SIN_TAYLOR_COEFFS[i] and INV_TAN_TAYLOR_COEFFS[i], i counted from 0.
INV_SIN_TAYLOR_COEFFS ==
    <<0, Ratio(1, 6), 0, Ratio(7, 360), 0, Ratio(31, 15120),
      0, Ratio(127, 604800)>>

INV_TAN_TAYLOR_COEFFS ==
    <<0, -Ratio(1, 3), 0, -Ratio(1, 45), 0, -Ratio(2, 945),
      0, -Ratio(1, 4725)>>

At(coeffs, i) == coeffs[i + 1]

\* A faulty variant of projection_to_tangent_space: it takes <p, p> to be 1
\* instead of recomputing it.
ProjectionAssumingUnit(vector0, base_point0) ==
    LET vector == ToNdarray(vector0)
        base_point == ToNdarray(base_point0)
        inner_prod == InnerProduct(base_point, vector)
    IN  MatSub(vector, EinsumScale(inner_prod, base_point))

\* Hypersphere.projection_to_tangent_space(vector, base_point).
ProjectionToTangentSpace(vector0, base_point0) ==
    LET vector == ToNdarray(vector0)
        base_point == ToNdarray(base_point0)
        sq_norm == SquaredNorm(base_point)
        inner_prod == InnerProduct(base_point, vector)
        coef == Arr([i \in 1..Len(inner_prod) |->
                    Div(inner_prod[i], Bc(sq_norm, i))])
    IN  MatSub(vector, EinsumScale(coef, base_point))

Zeros(n) == Arr([i \in 1..n |-> 0])

\* arr[mask] = vals[mask]: the entries the mask selects are overwritten.
MaskedAssign(arr, mask, vals) ==
    Arr([i \in 1..Len(arr) |-> IF mask[i] THEN vals[i] ELSE arr[i]])

\* 1 - norm2/2 + norm4/24 - norm6/720, for norm2 = theta^2.
ExpTaylor1(theta) ==
    LET norm2 == Pow(theta, 2)
        norm4 == Pow(norm2, 2)
        norm6 == Pow(norm2, 3)
    IN  Sub(Add(Sub(ONE, Div(norm2, 2 * ONE)), Div(norm4, 24 * ONE)),
            Div(norm6, 720 * ONE))

\* 1 - norm2/6 + norm4/120 - norm6/5040, for norm2 = theta^2.
ExpTaylor2(theta) ==
    LET norm2 == Pow(theta, 2)
        norm4 == Pow(norm2, 2)
        norm6 == Pow(norm2, 3)
    IN  Sub(Add(Sub(ONE, Div(norm2, 6 * ONE)), Div(norm4, 120 * ONE)),
            Div(norm6, 5040 * ONE))

\* The masks of exp over the tiled norms.
ExpMask0(norm_tangent_vec) ==
    Arr([i \in 1..Len(norm_tangent_vec) |-> IsClose(norm_tangent_vec[i], 0)])

ExpMaskNon0(norm_tangent_vec) ==
    Arr([i \in 1..Len(norm_tangent_vec) |-> ~ExpMask0(norm_tangent_vec)[i]])

\* coef_1 and coef_2 of exp: zeros, overwritten under mask_0 by the Taylor
\* values and under mask_non0 by the exact ones.
ExpCoef1(norm_tangent_vec, n_exps) ==
    MaskedAssign(
        MaskedAssign(Zeros(n_exps), ExpMask0(norm_tangent_vec),
                     Arr([i \in 1..n_exps |-> ExpTaylor1(norm_tangent_vec[i])])),
        ExpMaskNon0(norm_tangent_vec),
        Arr([i \in 1..n_exps |-> Cos(norm_tangent_vec[i])]))

ExpCoef2(norm_tangent_vec, n_exps) ==
    MaskedAssign(
        MaskedAssign(Zeros(n_exps), ExpMask0(norm_tangent_vec),
                     Arr([i \in 1..n_exps |-> ExpTaylor2(norm_tangent_vec[i])])),
        ExpMaskNon0(norm_tangent_vec),
        Arr([i \in 1..n_exps |->
            Div(Sin(norm_tangent_vec[i]), norm_tangent_vec[i])]))

\* HypersphereMetric.exp(tangent_vec, base_point), on batches.  A masked
\* assignment coef[mask] = ... raises IndexError unless the mask has as
\* many rows as coef.
Exp(tangent_vec0, base_point0) ==
    LET tangent_vec == ToNdarray(tangent_vec0)
        base_point == ToNdarray(base_point0)
        n_base_points == Len(base_point)
        n_tangent_vecs == Len(tangent_vec)
        n_exps == Max(n_base_points, n_tangent_vecs)
        proj_tangent_vec ==
            ProjectionToTangentSpace(Batch(tangent_vec), Batch(base_point))
        n_tiles_vec == n_exps \div n_tangent_vecs
        norm_tangent_vec == Tile(Norm(proj_tangent_vec), n_tiles_vec)
        n_tiles_base_point == n_exps \div n_base_points
        tiled_base_point == Tile(base_point, n_tiles_base_point)
    IN  IF Len(norm_tangent_vec) # n_exps THEN Raise("IndexError")
        ELSE Ok(MatAdd(
                 EinsumScale(ExpCoef1(norm_tangent_vec, n_exps),
                             tiled_base_point),
                 EinsumScale(ExpCoef2(norm_tangent_vec, n_exps),
                             proj_tangent_vec)))

\* The Taylor values of angle/sin(angle) and angle/tan(angle) used by log.
LogTaylor(coeffs, angle) ==
    Add(Add(Add(Add(ONE, Mul(At(coeffs, 1), Pow(angle, 2))),
                Mul(At(coeffs, 3), Pow(angle, 4))),
            Mul(At(coeffs, 5), Pow(angle, 6))),
        Mul(At(coeffs, 7), Pow(angle, 8)))

\* gs.cast(mask, gs.float32): 1.0 where the mask holds, 0.0 elsewhere.
CastFloat(b) == IF b THEN ONE ELSE 0

\* The angle between point and base_point, one per sample.
LogAngle(point, base_point) ==
    LET norm_base_point == Norm(base_point)
        norm_point == Norm(point)
        inner_prod == InnerProduct(base_point, point)
    IN  Arr([i \in 1..Len(inner_prod) |->
            Arccos(Clip(Div(inner_prod[i],
                            Mul(Bc(norm_base_point, i), Bc(norm_point, i))),
                        -ONE, ONE))])

\* coef_1 of log for one sample.
LogCoef1(angle0) ==
    LET mask_0_float == CastFloat(IsClose(angle0, 0))
        mask_else_float == CastFloat(~IsClose(angle0, 0))
        taylor == Mul(mask_0_float, LogTaylor(INV_SIN_TAYLOR_COEFFS, angle0))
        angle == Add(angle0, Mul(mask_0_float, ONE))
    IN  Add(taylor, Div(Mul(mask_else_float, angle), Sin(angle)))

\* coef_2 of log for one sample.
LogCoef2(angle0) ==
    LET mask_0_float == CastFloat(IsClose(angle0, 0))
        mask_else_float == CastFloat(~IsClose(angle0, 0))
        taylor == Mul(mask_0_float, LogTaylor(INV_TAN_TAYLOR_COEFFS, angle0))
        angle == Add(angle0, Mul(mask_0_float, ONE))
    IN  Add(taylor, Div(Mul(mask_else_float, angle), Tan(angle)))

\* coef_1 * point - coef_2 * base_point, for the angles of the samples.
LogOfAngle(angle, point, base_point) ==
    MatSub(EinsumScale(Arr([i \in 1..Len(angle) |-> LogCoef1(angle[i])]),
                       point),
           EinsumScale(Arr([i \in 1..Len(angle) |-> LogCoef2(angle[i])]),
                       base_point))

\* The trig-derived value of log.
LogTrig(point, base_point) ==
    LogOfAngle(LogAngle(point, base_point), point, base_point)

RECURSIVE SumTo(_, _)
\* f[1] + ... + f[k].
SumTo(f, k) == IF k = 0 THEN 0 ELSE Add(SumTo(f, k - 1), f[k])

\* A faulty variant of mask_same_points: no sample is ever taken for a pair
\* of identical points.
NoSamePoints(point, base_point) ==
    Arr([i \in 1..Max(Len(point), Len(base_point)) |-> CastFloat(FALSE)])

\* mask_same_points of log, as floats: 1.0 for the samples in which no
\* component of point differs from base_point beyond isclose.
MaskSamePoints(point, base_point) ==
    LET n == Max(Len(point), Len(base_point))
        mask_same_values ==
            Arr([i \in 1..n |-> Arr([k \in 1..Len(Bc(point, i)) |->
                IsClose(Bc(point, i)[k], Bc(base_point, i)[k])])])
        mask_else_float ==
            Arr([i \in 1..n |-> Arr([k \in 1..Len(mask_same_values[i]) |->
                CastFloat(mask_same_values[i][k] = FALSE)])])
        mask_not_same_points ==
            Arr([i \in 1..n |-> SumTo(mask_else_float[i],
                                  Len(mask_else_float[i]))])
    IN  Arr([i \in 1..n |-> CastFloat(IsClose(mask_not_same_points[i], 0))])

\* HypersphereMetric.log(point, base_point), on batches.
\* log -= einsum('ni,nj->nj', mask_same_points_float, log).
LogOverride(log, mask_same_points_float) ==
    MatSub(log, EinsumScale(mask_same_points_float, log))

Log(point0, base_point0) ==
    LogOverride(LogTrig(ToNdarray(point0), ToNdarray(base_point0)),
                MaskSamePoints(ToNdarray(point0), ToNdarray(base_point0)))

\* gs.abs.
AbsF(x) == IF IsFin(x) THEN Abs(x) ELSE NAN

\* gs.less_equal(diff, tolerance) for a tolerance num / den.
LessEqual(diff, tolerance) ==
    IsFin(diff) /\ diff <= (tolerance.num * SCALE) \div tolerance.den

\* The trailing dimension point.shape[-1].
PointDim(point) == Len(point.rows[1])

\* Hypersphere.belongs(point, tolerance): the array returned.
Belongs(dim, point, tolerance) ==
    IF PointDim(point) # dim + 1 THEN <<FALSE>>
    ELSE LET sq_norm == SquaredNorm(point.rows)
         IN  Arr([i \in 1..Len(sq_norm) |->
                 LessEqual(AbsF(Sub(sq_norm[i], ONE)), tolerance)])

\* Whether belongs logs its warning.  same_object is the outcome of
\* `point_dim is self.dimension` for two equal integers.
BelongsWarns(dim, point, same_object) ==
    /\ PointDim(point) # dim + 1
    /\ PointDim(point) = dim
    /\ same_object

\* The largest integer of which the interpreter keeps a single object.
SMALL_INT_MAX == 256

\* The outcomes `a is b` can have for two integers a and b.
IsOutcomes(a, b) ==
    IF a # b THEN {FALSE}
    ELSE IF a <= SMALL_INT_MAX THEN {TRUE}
    ELSE BOOLEAN

\* gs.all.
All(mask) == \A i \in 1..Len(mask) : mask[i]

\* Hypersphere.projection(point): each sample divided by its norm.
Projection(point) ==
    LET rows == ToNdarray(point)
        norm == Norm(rows)
    IN  Arr([i \in 1..Len(rows) |->
            Arr([k \in 1..Len(rows[i]) |-> Div(rows[i][k], norm[i])])])

\* A faulty variant of regularize: the assertion is left out.
RegularizeUnchecked(dim, point) == Ok(Projection(point))

\* Hypersphere.regularize(point).
Regularize(dim, point) ==
    IF ~All(Belongs(dim, point, TOLERANCE)) THEN Raise("AssertionError")
    ELSE Ok(Projection(point))

\* gs.einsum('n,ni->ni', coef, mat) for operands of equal length.
EinsumRows(coef, mat) ==
    Arr([i \in 1..Len(mat) |-> Arr([k \in 1..Len(mat[i]) |-> Mul(coef[i], mat[i][k])])])

MatNeg(a) == Arr([i \in 1..Len(a) |-> Arr([k \in 1..Len(a[i]) |-> Neg(a[i][k])])])

\* A faulty variant of the transport: the component along base_point is
\* left out.
TransportedInTangentPlane(tangent_vec_a, tangent_vec_b, base_point) ==
    LET n == Len(base_point)
        theta == Norm(tangent_vec_b)
        normalized_b ==
            EinsumRows(Arr([i \in 1..n |-> Div(ONE, theta[i])]), tangent_vec_b)
        pb == Arr([i \in 1..n |-> Dot(tangent_vec_a[i], normalized_b[i])])
        p_orth == MatSub(tangent_vec_a, EinsumRows(pb, normalized_b))
    IN  MatAdd(EinsumRows(Arr([i \in 1..n |-> Mul(Cos(theta[i]), pb[i])]),
                          normalized_b),
               p_orth)

\* The transported vectors of parallel_transport, past its assertion.
Transported(tangent_vec_a, tangent_vec_b, base_point) ==
    LET n == Len(base_point)
        theta == Norm(tangent_vec_b)
        normalized_b ==
            EinsumRows(Arr([i \in 1..n |-> Div(ONE, theta[i])]), tangent_vec_b)
        pb == Arr([i \in 1..n |-> Dot(tangent_vec_a[i], normalized_b[i])])
        p_orth == MatSub(tangent_vec_a, EinsumRows(pb, normalized_b))
    IN  MatAdd(
            MatAdd(
                MatNeg(EinsumRows(Arr([i \in 1..n |-> Mul(Sin(theta[i]), pb[i])]),
                                  base_point)),
                EinsumRows(Arr([i \in 1..n |-> Mul(Cos(theta[i]), pb[i])]),
                           normalized_b)),
            p_orth)

\* The assertion of parallel_transport on the three batch lengths.
SameLength(tangent_vec_a, tangent_vec_b, base_point) ==
    /\ Len(base_point) = Len(tangent_vec_a)
    /\ Len(tangent_vec_a) = Len(tangent_vec_b)

\* The first n rows of a batch.
Prefix(rows, n) == Arr([i \in 1..n |-> rows[i]])

Min(a, b) == IF a < b THEN a ELSE b

\* A faulty variant of parallel_transport: batches of different lengths are
\* cut to the shortest instead of being refused.
ParallelTransportTruncating(tangent_vec_a, tangent_vec_b, base_point) ==
    LET a == ToNdarray(tangent_vec_a)
        b == ToNdarray(tangent_vec_b)
        p == ToNdarray(base_point)
        n == Min(Len(a), Min(Len(b), Len(p)))
    IN  Ok(Transported(Prefix(a, n), Prefix(b, n), Prefix(p, n)))

\* HypersphereMetric.parallel_transport(tangent_vec_a, tangent_vec_b,
\* base_point).
ParallelTransport(tangent_vec_a, tangent_vec_b, base_point) ==
    LET a == ToNdarray(tangent_vec_a)
        b == ToNdarray(tangent_vec_b)
        p == ToNdarray(base_point)
    IN  IF ~SameLength(a, b, p) THEN Raise("AssertionError")
        ELSE Ok(Transported(a, b, p))

\* A faulty variant of the guard of christoffels: it refuses a call only
\* when both the dimension and the point type are wrong.
ChristoffelsSupportedEither(dim, point_type) ==
    ~(dim # 2 /\ point_type # "spherical")

\* Whether christoffels is implemented for this metric and point type.
ChristoffelsSupported(dim, point_type) ==
    ~(dim # 2 \/ point_type # "spherical")

\* The tensor of one sample p = (theta, phi): <<gamma_0, gamma_1>>.
ChristoffelOf(p) ==
    LET gamma_0 == <<<<0, 0>>, <<0, Mul(Neg(Sin(p[1])), Cos(p[1]))>>>>
        gamma_1 == <<<<0, Div(Cos(p[1]), Sin(p[1]))>>,
                     <<Div(Cos(p[1]), Sin(p[1])), 0>>>>
    IN  <<gamma_0, gamma_1>>

\* HypersphereMetric.christoffels(point, point_type).  Reading p[0] of an
\* empty sample raises IndexError.
Christoffels(dim, point, point_type) ==
    IF ~ChristoffelsSupported(dim, point_type)
    THEN Raise("NotImplementedError")
    ELSE LET rows == ToNdarray(point)
         IN  IF \E i \in 1..Len(rows) : Len(rows[i]) = 0
             THEN Raise("IndexError")
             ELSE Ok(Arr([i \in 1..Len(rows) |-> ChristoffelOf(rows[i])]))

----------------------------------------------------------------------------
(* Linear algebra backend.  A matrix argument is                            *)
(* [ndim, shape, dtype, data]: data is a matrix (a sequence of rows) when   *)
(* ndim = 2 and a sequence of matrices when ndim = 3.                       *)

RaiseMsg(e, m) == [err |-> e, msg |-> m, val |-> <<>>]

NOT_PD == "Matrix is not positive definite"

RECURSIVE CholL(_, _, _)
RECURSIVE CholSum(_, _, _, _)
\* L[i][1] * L[j][1] + ... + L[i][k] * L[j][k] for the Cholesky factor L.
CholSum(a, i, j, k) ==
    IF k = 0 THEN 0
    ELSE Add(CholSum(a, i, j, k - 1), Mul(CholL(a, i, k), CholL(a, j, k)))

\* The j-th pivot a[j][j] - sum of L[j][k]^2, k < j.
CholPivot(a, j) == Sub(a[j][j], CholSum(a, j, j, j - 1))

\* Entry (i, j), i >= j, of the lower Cholesky factor of a; only the lower
\* triangle of a is read.
CholL(a, i, j) ==
    IF i = j THEN Sqrt(CholPivot(a, j))
    ELSE Div(Sub(a[i][j], CholSum(a, i, j, j - 1)), CholL(a, j, j))

\* np.linalg.cholesky(mat) on a square matrix: the exception it raises, if
\* any.  A pivot that is not positive stops the factorization; an array
\* that does not hold numbers is refused with a TypeError.
Cholesky(mat, dtype) ==
    IF dtype # "float64" THEN RaiseMsg("TypeError", "ufunc not supported")
    ELSE IF \E j \in 1..Len(mat) :
                ~IsFin(CholPivot(mat, j)) \/ CholPivot(mat, j) <= 0
    THEN RaiseMsg("LinAlgError", NOT_PD)
    ELSE Ok("factor")

\* A faulty variant of _is_single_matrix_pd: every failure of the
\* factorization is turned into False.
IsSingleMatrixPdCatchAll(mat, dtype) ==
    IF Cholesky(mat, dtype).err = "none" THEN Ok(TRUE) ELSE Ok(FALSE)

\* _is_single_matrix_pd(mat).
IsSingleMatrixPd(mat, dtype) ==
    LET ch == Cholesky(mat, dtype)
    IN  IF ch.err = "none" THEN Ok(TRUE)
        ELSE IF ch.err = "LinAlgError"
             THEN (IF ch.msg = NOT_PD THEN Ok(FALSE) ELSE ch)
        ELSE ch

\* [f(m) for m in mats]: the list, or the first exception raised.
ListOfPd(mats, dtype) ==
    LET each == Arr([k \in 1..Len(mats) |-> IsSingleMatrixPd(mats[k], dtype)])
    IN  IF \E k \in 1..Len(mats) : each[k].err # "none"
        THEN each[CHOOSE k \in 1..Len(mats) :
                     /\ each[k].err # "none"
                     /\ \A h \in 1..(k - 1) : each[h].err = "none"]
        ELSE Ok(Arr([k \in 1..Len(mats) |-> each[k].val]))

\* is_pd(mat).
IsPd(mat) ==
    IF mat.ndim = 2 /\ mat.shape[1] = mat.shape[2]
    THEN IsSingleMatrixPd(mat.data, mat.dtype)
    ELSE IF mat.ndim = 2 /\ mat.shape[1] # mat.shape[2]
    THEN Ok(FALSE)
    ELSE IF mat.ndim = 3 /\ mat.shape[2] = mat.shape[3]
    THEN ListOfPd(mat.data, mat.dtype)
    ELSE IF mat.ndim = 3 /\ mat.shape[2] # mat.shape[3]
    THEN Ok(Arr([k \in 1..mat.shape[1] |-> FALSE]))
    ELSE Ok("None")

\* np.transpose of a matrix, and the matrix product x @ y.
Transpose(m) ==
    Arr([j \in 1..Len(m[1]) |-> Arr([i \in 1..Len(m) |-> m[i][j]])])

MatMulT(x, yt) ==
    Arr([i \in 1..Len(x) |-> Arr([j \in 1..Len(yt) |-> Dot(x[i], yt[j])])])

MatMul(x, y) == MatMulT(x, Transpose(y))

\* The tolerance 1e-12 of _is_symmetric and of solve_sylvester, as
\* num / 10^exp.
IS_SYMMETRIC_TOL == [num |-> 1, exp |-> 12]

SYLVESTER_TOL == [num |-> 1, exp |-> 12]

\* The least number kept that is >= the tolerance t: num * SCALE / 10^exp,
\* rounded up.
CeilTol(t) ==
    IF t.exp >= DIGITS THEN -((-t.num) \div (10 ^ (t.exp - DIGITS)))
    ELSE t.num * (10 ^ (DIGITS - t.exp))

\* x < t and x >= t for a number x and a tolerance t.
LessTol(x, t) == IsFin(x) /\ x < CeilTol(t)

GreaterEqualTol(x, t) == IsFin(x) /\ x >= CeilTol(t)

\* The eigenvector (x, y) / |(x, y)| of a 2x2 matrix, (x, y) # (0, 0).
EighVector(x, y, n) == <<Div(x, n), Div(y, n)>>

\* eigh of the symmetric matrix ((a11, b), (b, a22)), b # 0, whose
\* eigenvalues are m - r and m + r: the eigenvector of l is along
\* (b, l - a11).
EighOf(a11, b, l1, l2) ==
    LET v1 == EighVector(b, Sub(l1, a11),
                         Sqrt(Add(Mul(b, b), Mul(Sub(l1, a11), Sub(l1, a11)))))
        v2 == EighVector(b, Sub(l2, a11),
                         Sqrt(Add(Mul(b, b), Mul(Sub(l2, a11), Sub(l2, a11)))))
    IN  [eigvals |-> <<l1, l2>>,
         eigvecs |-> <<<<v1[1], v2[1]>>, <<v1[2], v2[2]>>>>]

EighMidRadius(a11, b, m, r) == EighOf(a11, b, Sub(m, r), Add(m, r))

\* np.linalg.eigh(a) for a 1x1 or 2x2 matrix: the eigenvalues in ascending
\* order and the eigenvectors as columns.  Only the lower triangle of a is
\* read.
Eigh(a) ==
    IF Len(a) = 1 THEN [eigvals |-> <<a[1][1]>>, eigvecs |-> <<<<ONE>>>>]
    ELSE IF a[2][1] = 0
    THEN (IF a[1][1] <= a[2][2]
          THEN [eigvals |-> <<a[1][1], a[2][2]>>,
                eigvecs |-> <<<<ONE, 0>>, <<0, ONE>>>>]
          ELSE [eigvals |-> <<a[2][2], a[1][1]>>,
                eigvecs |-> <<<<0, ONE>>, <<ONE, 0>>>>])
    ELSE EighMidRadius(
             a[1][1], a[2][1],
             Div(Add(a[1][1], a[2][2]), 2 * ONE),
             Sqrt(Add(Pow(Div(Sub(a[1][1], a[2][2]), 2 * ONE), 2),
                      Pow(a[2][1], 2))))

\* tilde_q / (eigvals[..., :, None] + eigvals[..., None, :]).
SylvesterDivide(tilde_q, eigvals) ==
    Arr([i \in 1..Len(tilde_q) |-> Arr([j \in 1..Len(tilde_q[i]) |->
        Div(tilde_q[i][j], Add(eigvals[i], eigvals[j]))])])

\* eigvecs @ tilde_x @ transpose(eigvecs) for
\* tilde_x = (transpose(eigvecs) @ q @ eigvecs) / (pairwise eigenvalue sums).
SylvesterEighOf(q, eigvals, eigvecs, eigvecs_t) ==
    MatMul(MatMul(eigvecs,
                  SylvesterDivide(MatMul(MatMul(eigvecs_t, q), eigvecs),
                                  eigvals)),
           eigvecs_t)

SylvesterWith(q, e) ==
    SylvesterEighOf(q, e.eigvals, e.eigvecs, Transpose(e.eigvecs))

\* The eigen-decomposition path of solve_sylvester for one matrix a = b.
SylvesterEigh(a, q) == SylvesterWith(q, Eigh(a))

\* The matrix m without its first row and its column j.
Minor(m, j) ==
    Arr([i \in 1..(Len(m) - 1) |-> Arr([k \in 1..(Len(m) - 1) |->
        m[i + 1][IF k < j THEN k ELSE k + 1]])])

RECURSIVE Det(_)
RECURSIVE DetRow(_, _)
\* The first j terms of the expansion of det(m) along its first row.
DetRow(m, j) ==
    IF j = 0 THEN 0
    ELSE Add(DetRow(m, j - 1),
             Mul(IF j % 2 = 1 THEN m[1][j] ELSE Neg(m[1][j]),
                 Det(Minor(m, j))))

Det(m) == IF Len(m) = 1 THEN m[1][1] ELSE DetRow(m, Len(m))

\* The linear system of a X + X b = q in the entries of the m x n matrix X,
\* entry (i, j) being unknown number (i - 1) * n + j: its matrix.
SylvesterSystem(a, b, m, n) ==
    Arr([e \in 1..(m * n) |-> Arr([u \in 1..(m * n) |->
        Add(IF ((u - 1) % n) = ((e - 1) % n)
            THEN a[((e - 1) \div n) + 1][((u - 1) \div n) + 1] ELSE 0,
            IF ((u - 1) \div n) = ((e - 1) \div n)
            THEN b[((u - 1) % n) + 1][((e - 1) % n) + 1] ELSE 0)])])

\* The matrix sys with its column u replaced by the right-hand side rhs.
ReplaceColumn(sys, u, rhs) ==
    Arr([e \in 1..Len(sys) |-> Arr([c \in 1..Len(sys) |->
        IF c = u THEN rhs[e] ELSE sys[e][c]])])

\* The solution of the system by determinants; a system of determinant 0
\* has no solution or several, and the values returned for it are not
\* numbers to rely on.
SylvesterSolved(sys, det, q, m, n) ==
    Arr([i \in 1..m |-> Arr([j \in 1..n |->
        IF det = 0 \/ ~IsFin(det) THEN NAN
        ELSE Div(Det(ReplaceColumn(
                     sys, (i - 1) * n + j,
                     Arr([e \in 1..(m * n) |->
                         q[((e - 1) \div n) + 1][((e - 1) % n) + 1]]))),
                 det)])])

SylvesterOfSystem(sys, q, m, n) == SylvesterSolved(sys, Det(sys), q, m, n)

\* scipy.linalg.solve_sylvester(a, b, q) for one triple of matrices: the
\* solution X of a X + X b = q.
SylvesterGeneral(a, b, q) ==
    SylvesterOfSystem(SylvesterSystem(a, b, Len(a), Len(b)), q, Len(a), Len(b))

\* The matrices of an array of rank 2 or 3.
Matrices(x) == IF x.ndim = 2 THEN <<x.data>> ELSE x.data

\* np.all(np.abs(a - np.transpose(a, axes)) < tol) over the matrices ms.
AllSymmetric(ms, tol) ==
    \A k \in 1..Len(ms) : \A i \in 1..Len(ms[k]) : \A j \in 1..Len(ms[k]) :
        LessTol(AbsF(Sub(ms[k][i][j], ms[k][j][i])), tol)

\* A faulty variant of the test of solve_sylvester: eigenvalues down to
\* -1e-12 are let through to the eigen-decomposition path.
SylvesterUsesEighFromMinusTol(a, b) ==
    /\ a.shape = b.shape
    /\ a.data = b.data
    /\ AllSymmetric(Matrices(a), SYLVESTER_TOL)
    /\ \A k \in 1..Len(Matrices(a)) :
           \A i \in 1..Len(Matrices(a)[k]) :
               GreaterEqualTol(Eigh(Matrices(a)[k]).eigvals[i],
                               [num |-> -1, exp |-> 12])

\* Whether solve_sylvester(a, b, q) takes the eigen-decomposition path.
SylvesterUsesEigh(a, b) ==
    /\ a.shape = b.shape
    /\ a.data = b.data
    /\ AllSymmetric(Matrices(a), SYLVESTER_TOL)
    /\ \A k \in 1..Len(Matrices(a)) :
           \A i \in 1..Len(Matrices(a)[k]) :
               GreaterEqualTol(Eigh(Matrices(a)[k]).eigvals[i], SYLVESTER_TOL)

\* The array of the matrices xs, of the rank of the argument a.
OfRank(a, xs) == IF a.ndim = 2 THEN xs[1] ELSE xs

\* solve_sylvester(a, b, q): the solution and the path taken.
SolveSylvester(a, b, q) ==
    IF SylvesterUsesEigh(a, b)
    THEN [err |-> "none", path |-> "eigh",
          val |-> OfRank(a, Arr([k \in 1..Len(Matrices(a)) |->
                     SylvesterEigh(Matrices(a)[k], Matrices(q)[k])]))]
    ELSE [err |-> "none", path |-> "general",
          val |-> OfRank(a, Arr([k \in 1..Len(Matrices(a)) |->
                     SylvesterGeneral(Matrices(a)[k], Matrices(b)[k],
                                      Matrices(q)[k])]))]

\* ln 2.
LN2 == Ratio(6931, 10 ^ 4)

\* 2 * (z + z^3/3 + z^5/5 + z^7/7) = ln((1 + z) / (1 - z)), for z2 = z^2.
LnSeries(z, z2) ==
    Mul(2 * ONE,
        Mul(z, Add(ONE, Add(Div(z2, 3 * ONE),
                            Add(Div(Pow(z2, 2), 5 * ONE),
                                Div(Pow(z2, 3), 7 * ONE))))))

LnOfRatio(z) == LnSeries(z, Mul(z, z))

RECURSIVE LnPositive(_)
\* ln(x) for x > 0: x is halved or doubled into [3/4, 3/2).
LnPositive(x) ==
    IF 2 * x >= 3 * ONE THEN Add(LnPositive(RoundDiv(x, 2)), LN2)
    ELSE IF 4 * x < 3 * ONE THEN Sub(LnPositive(2 * x), LN2)
    ELSE LnOfRatio(Div(Sub(x, ONE), Add(x, ONE)))

\* np.log, rounded to nearest; not a finite number for x <= 0.
Ln(x) == IF ~IsFin(x) \/ x <= 0 THEN NAN ELSE LnPositive(x)

\* np.diag of a vector.
Diag(v) ==
    Arr([i \in 1..Len(v) |-> Arr([j \in 1..Len(v) |->
        IF i = j THEN v[i] ELSE 0])])

\* eigvecs @ diag(log(eigvals)) @ transpose(eigvecs).
LogmEighOf(eigvals, eigvecs) ==
    MatMul(MatMul(eigvecs,
                  Diag(Arr([i \in 1..Len(eigvals) |-> Ln(eigvals[i])]))),
           Transpose(eigvecs))

LogmWith(e) == LogmEighOf(e.eigvals, e.eigvecs)

\* The eigen shortcut of logm for one symmetric matrix.
LogmEigh(a) == LogmWith(Eigh(a))

\* log(l1) I + (log(l2) - log(l1)) / (l2 - l1) * (a - l1 I), the principal
\* logarithm of a 2x2 matrix a of eigenvalues 0 < l1 < l2.
LogmOfLogs(a, l1, ln1, slope) ==
    Arr([i \in 1..2 |-> Arr([j \in 1..2 |->
        Add(IF i = j THEN ln1 ELSE 0,
            Mul(slope, Sub(a[i][j], IF i = j THEN l1 ELSE 0)))])])

LogmOfEigenvalues(a, l1, l2) ==
    IF l1 <= 0 THEN <<<<NAN, NAN>>, <<NAN, NAN>>>>
    ELSE IF l1 = l2
    THEN LogmOfLogs(a, l1, Ln(l1), Div(ONE, l1))
    ELSE LogmOfLogs(a, l1, Ln(l1), Div(Sub(Ln(l2), Ln(l1)), Sub(l2, l1)))

\* The eigenvalues half_trace -+ sqrt(disc) of a 2x2 matrix, real when
\* disc >= 0.
LogmOfDiscriminant(a, half_trace, disc) ==
    IF disc < 0 THEN <<<<NAN, NAN>>, <<NAN, NAN>>>>
    ELSE LogmOfEigenvalues(a, Sub(half_trace, Sqrt(disc)),
                           Add(half_trace, Sqrt(disc)))

LogmOfHalfTrace(a, half_trace) ==
    LogmOfDiscriminant(
        a, half_trace,
        Sub(Mul(half_trace, half_trace),
            Sub(Mul(a[1][1], a[2][2]), Mul(a[1][2], a[2][1]))))

\* scipy.linalg.logm(a) for one 1x1 or 2x2 real matrix: its principal
\* logarithm.  For a matrix with an eigenvalue that is not a positive real
\* the result is not a matrix of finite reals.
LogmGeneral(a) ==
    IF Len(a) = 1 THEN <<<<Ln(a[1][1])>>>>
    ELSE LogmOfHalfTrace(a, Div(Add(a[1][1], a[2][2]), 2 * ONE))

\* A faulty variant of _is_symmetric: only the first matrix is looked at.
IsSymmetricFirstOnly(x) == AllSymmetric(<<Matrices(x)[1]>>, IS_SYMMETRIC_TOL)

\* _is_symmetric(x): every matrix of x is symmetric within tol.
IsSymmetric(x) == AllSymmetric(Matrices(x), IS_SYMMETRIC_TOL)

\* (eigvals > 0).all() over the matrices ms.
AllEigenvaluesPositive(ms) ==
    \A k \in 1..Len(ms) : \A i \in 1..Len(ms[k]) :
        IsFin(Eigh(ms[k]).eigvals[i]) /\ Eigh(ms[k]).eigvals[i] > 0

\* Whether logm(x) takes the eigen shortcut: one choice for the batch.
LogmUsesEigh(x) == IsSymmetric(x) /\ AllEigenvaluesPositive(Matrices(x))

\* The array returned for the rank-3 result: result[0] if x has rank 2.
LogmReturn(x, result3) ==
    IF x.ndim = 2
    THEN [ndim |-> 2, shape |-> <<Len(result3[1]), Len(result3[1][1])>>,
          dtype |-> "float64", data |-> result3[1]]
    ELSE [ndim |-> 3,
          shape |-> <<Len(result3), Len(result3[1]), Len(result3[1][1])>>,
          dtype |-> "float64", data |-> result3]

\* logm(x): the logarithm and the branch taken.
Logm(x) ==
    IF LogmUsesEigh(x)
    THEN [err |-> "none", path |-> "eigh",
          val |-> LogmReturn(x, Arr([k \in 1..Len(Matrices(x)) |->
                                        LogmEigh(Matrices(x)[k])]))]
    ELSE [err |-> "none", path |-> "general",
          val |-> LogmReturn(x, Arr([k \in 1..Len(Matrices(x)) |->
                                        LogmGeneral(Matrices(x)[k])]))]

----------------------------------------------------------------------------
(* Bounds of the model and the arguments the calls are given *)

\* The longest batch.
MaxBatch == 2

\* Spheres of dimension 1..MaxDim are built, and one sphere whose
\* dimension lies beyond the interpreter's shared small integers.
MaxDim == 2

\* Coordinates of the vectors projected: multiples of 1/2 up to MaxCoord/2.
MaxCoord == 2

Dimensions == (1..MaxDim) \cup {SMALL_INT_MAX + 1}

\* The sequences over S of length 1..n.
SeqsUpTo(S, n) == UNION {[1..k -> S] : k \in 1..n}

\* Single vectors of S, and batches of them.
VecArgs(S) ==
    {Single(v) : v \in S} \cup {Batch(vs) : vs \in SeqsUpTo(S, MaxBatch)}

\* Lengths n and m that broadcast against each other.
Broadcasts(n, m) == n = m \/ n = 1 \/ m = 1

ZERO3 == <<0, 0, 0>>

E1 == <<ONE, 0, 0>>

E2 == <<0, ONE, 0>>

E3 == <<0, 0, ONE>>

\* (3/5, 4/5, 0), a unit vector, and (-4/5, 3/5, 0), orthogonal to it.
P35 == <<Ratio(3, 5), Ratio(4, 5), 0>>

Q35 == <<-Ratio(4, 5), Ratio(3, 5), 0>>

Scaled(t, u) == Arr([k \in 1..Len(u) |-> Mul(t, u[k])])

\* Unit base points of the 2-sphere; none for another dimension.
UnitPool(dim) == IF dim = 2 THEN {E1, E3, P35} ELSE {}

\* Ambient vectors handed to exp as tangent vectors.
TangentPool(dim) ==
    IF dim = 2 THEN {ZERO3, E2, Scaled(PI, E3), Scaled(HALF_PI, Q35)} ELSE {}

\* Points handed to log: unit points, an antipode, and two points that
\* differ by one unit of the last place, within isclose of each other.
LogPointPool(dim) ==
    IF dim = 2
    THEN {E3, P35, Scaled(-ONE, P35), <<10 * ONE - 10, 0, 0>>,
          <<10 * ONE - 9, 0, 0>>}
    ELSE {}

LogBasePool(dim) ==
    IF dim = 2 THEN {E3, P35, <<10 * ONE - 10, 0, 0>>} ELSE {}

\* Unit tangent directions at a unit base point.
TangentDirs(p) ==
    IF p = E1 THEN {E2, <<0, Ratio(3, 5), Ratio(4, 5)>>}
    ELSE IF p = E3 THEN {E1, P35}
    ELSE {Q35, E3}

\* Lengths of the tangent vectors of the round trip exp, log, exp.
Thetas == {0, ONE \div 2, ONE, HALF_PI, 2 * ONE, PI}

\* Vectors and base points handed to projection_to_tangent_space.
Coords == {c * (ONE \div 2) : c \in (-MaxCoord)..MaxCoord}

ProjVectors(dim) == IF dim <= 2 THEN [1..(dim + 1) -> Coords] ELSE {}

ProjBasePoints(dim) ==
    {p \in ProjVectors(dim) :
        /\ \A k \in 1..Len(p) : p[k] >= 0
        /\ \E k \in 1..Len(p) : p[k] # 0}

\* Samples <<base point, tangent vector a, tangent vector b>> handed to
\* parallel_transport.  In each, a and b are orthogonal to the base point;
\* the last but one has a base point of norm 2, the last a zero vector b.
TransportSamples(dim) ==
    IF dim = 2
    THEN {<<E3, E1, Scaled(HALF_PI, E1)>>,
          <<E3, <<ONE, ONE \div 2, 0>>, P35>>,
          <<P35, <<-Ratio(4, 5), Ratio(3, 5), ONE>>, Scaled(2 * ONE, E3)>>,
          <<P35, Scaled(2 * ONE, Q35), Scaled(PI, Q35)>>,
          <<Scaled(2 * ONE, E3), E1, Scaled(HALF_PI, E1)>>,
          <<E1, E2, ZERO3>>}
    ELSE {}

\* Component c of the first n samples of s, as a single vector or a batch.
TransportArg(s, c, n, single) ==
    IF single THEN Single(s[1][c]) ELSE Batch(Arr([i \in 1..n |-> s[i][c]]))

\* Samples (theta, phi) in spherical coordinates, and an empty sample.
SphericalPool == {<<ONE \div 2, 0>>, <<ONE, ONE>>, <<HALF_PI, 0>>, <<0, 0>>,
                  <<>>}

PointTypes == {"spherical", "extrinsic"}

\* The vector (first, second, 0, ..., 0) of n coordinates.
MkVec(n, first, second) ==
    Arr([k \in 1..n |-> IF k = 1 THEN first ELSE IF k = 2 THEN second ELSE 0])

\* Points handed to belongs and regularize: n coordinates each, on the
\* sphere or off it.
PointsOfLen(n) ==
    {MkVec(n, c[1], c[2]) :
        c \in {<<ONE, 0>>, <<Ratio(3, 5), Ratio(4, 5)>>, <<Ratio(101, 100), 0>>,
               <<0, 0>>, <<0, -ONE>>}}

PointArgs(dim) ==
    UNION {VecArgs(PointsOfLen(n)) : n \in {dim, dim + 1, dim + 2}}

Tolerances == {TOLERANCE, [num |-> 0, den |-> 1], [num |-> 201, den |-> SCALE],
               [num |-> 200, den |-> SCALE]}

\* Matrices handed to is_pd.
Entries == {-ONE, 0, ONE, 2 * ONE}

Matrix(d) == [ndim |-> 2, shape |-> <<Len(d), Len(d[1])>>,
              dtype |-> "float64", data |-> d]

Stack(ds) == [ndim |-> 3, shape |-> <<Len(ds), Len(ds[1]), Len(ds[1][1])>>,
              dtype |-> "float64", data |-> ds]

Square2 == {<<<<a, b>>, <<c, d>>>> : a \in Entries, b \in Entries,
                                    c \in Entries, d \in Entries}

Square2Pool == {<<<<ONE, 0>>, <<0, ONE>>>>, <<<<ONE, 0>>, <<0, -ONE>>>>,
                <<<<0, ONE>>, <<ONE, 0>>>>, <<<<2 * ONE, ONE>>, <<ONE, ONE>>>>}

Square3Pool == {<<<<ONE, 0, 0>>, <<0, ONE, 0>>, <<0, 0, ONE>>>>,
                <<<<2 * ONE, ONE, 0>>, <<ONE, 2 * ONE, ONE>>,
                  <<0, ONE, 2 * ONE>>>>,
                <<<<ONE, 2 * ONE, 0>>, <<2 * ONE, ONE, 0>>,
                  <<0, 0, ONE>>>>}

NonSquarePool == {<<<<ONE, 0, 0>>, <<0, ONE, 0>>>>, <<<<ONE, 0>>>>,
                  <<<<ONE>>, <<ONE>>>>}

MatrixArgs ==
    LET floats ==
            {Matrix(d) : d \in Square2 \cup Square3Pool \cup NonSquarePool
                               \cup {<<<<e>>>> : e \in Entries}}
            \cup {Stack(ds) : ds \in SeqsUpTo(Square2Pool, MaxBatch)}
            \cup {Stack(ds) : ds \in SeqsUpTo({<<<<ONE, 0, 0>>, <<0, ONE, 0>>>>},
                                             MaxBatch)}
            \cup {[ndim |-> 1, shape |-> <<2>>, dtype |-> "float64",
                   data |-> <<ONE, 0>>]}
        objects ==
            {[m EXCEPT !.dtype = "object"] :
                m \in {Matrix(d) : d \in Square2Pool \cup NonSquarePool}
                      \cup {Stack(ds) : ds \in SeqsUpTo(Square2Pool, MaxBatch)}}
    IN  floats \cup objects

\* Square matrices handed to solve_sylvester as a and b: positive definite
\* ones (the first not diagonal, the second diagonal), a singular one with
\* eigenvalues 0 and 2, an indefinite one, one that is not symmetric, and
\* a 1x1 matrix.
SylvesterPdPool == {<<<<2 * ONE, ONE>>, <<ONE, 2 * ONE>>>>,
                    <<<<2 * ONE, 0>>, <<0, ONE>>>>}

SylvesterPool ==
    SylvesterPdPool
    \cup {<<<<ONE, ONE>>, <<ONE, ONE>>>>, <<<<ONE, 2 * ONE>>, <<2 * ONE, ONE>>>>,
          <<<<2 * ONE, ONE>>, <<0, ONE>>>>, <<<<ONE>>>>}

\* The matrices of the batches: the positive definite ones and the singular
\* one.
SylvesterBatchPool == SylvesterPdPool \cup {<<<<ONE, ONE>>, <<ONE, ONE>>>>}

\* Right-hand sides q of m rows and n columns.
SylvesterRhs(m, n) ==
    {Arr([i \in 1..m |-> Arr([j \in 1..n |-> t[i][j]])]) :
        t \in {<<<<ONE, 2 * ONE>>, <<0, -ONE>>>>,
               <<<<ONE, 0>>, <<0, ONE>>>>}}

\* The arguments (a, b, q) of solve_sylvester: single matrices, and batches
\* in which b is a or differs from it in its last matrix.
SylvesterArgs ==
    {[a |-> Matrix(a), b |-> Matrix(b), q |-> Matrix(q)] :
        a \in SylvesterPool, b \in SylvesterPool,
        q \in UNION {SylvesterRhs(m, n) : m \in 1..2, n \in 1..2}}
    \cup {[a |-> Stack(as), b |-> Stack(bs),
           q |-> Stack(Arr([k \in 1..Len(as) |-> qm]))] :
             as \in SeqsUpTo(SylvesterBatchPool, MaxBatch),
             bs \in SeqsUpTo(SylvesterBatchPool, MaxBatch),
             qm \in SylvesterRhs(2, 2)}

\* Matrices handed to logm in batches: two symmetric positive definite
\* ones, one that is not symmetric, and a symmetric one of eigenvalues -1
\* and 3.
LogmBatchPool == {<<<<2 * ONE, ONE>>, <<ONE, 2 * ONE>>>>,
                  <<<<2 * ONE, -ONE>>, <<-ONE, ONE>>>>,
                  <<<<2 * ONE, ONE>>, <<0, ONE>>>>,
                  <<<<ONE, 2 * ONE>>, <<2 * ONE, ONE>>>>}

\* The arguments of logm: single matrices, a singular one and 1x1 ones
\* among them, and batches.
LogmArgs ==
    {Matrix(d) : d \in LogmBatchPool
                       \cup {<<<<ONE, ONE>>, <<ONE, ONE>>>>,
                             <<<<2 * ONE, 0>>, <<0, ONE>>>>,
                             <<<<2 * ONE>>>>, <<<<-ONE>>>>}}
    \cup {Stack(ds) : ds \in SeqsUpTo(LogmBatchPool, MaxBatch)}

----------------------------------------------------------------------------
(* The calls *)

Init ==
    /\ dimension \in Dimensions
    /\ op = "idle"
    /\ args = <<>>
    /\ result = Ok(<<>>)
    /\ warned = FALSE

\* metric.exp(tangent_vec, base_point)
DoExp ==
    /\ op = "idle"
    /\ \E tangent_vec \in VecArgs(TangentPool(dimension)),
       base_point \in VecArgs(UnitPool(dimension)) :
        /\ Broadcasts(Len(tangent_vec.rows), Len(base_point.rows))
        /\ op' = "exp"
        /\ args' = [tangent_vec |-> tangent_vec, base_point |-> base_point]
        /\ result' = Exp(tangent_vec, base_point)
        /\ warned' = FALSE
        /\ UNCHANGED dimension

\* metric.log(point, base_point)
DoLog ==
    /\ op = "idle"
    /\ \E point \in VecArgs(LogPointPool(dimension)),
       base_point \in VecArgs(LogBasePool(dimension)) :
        /\ Broadcasts(Len(point.rows), Len(base_point.rows))
        /\ op' = "log"
        /\ args' = [point |-> point, base_point |-> base_point]
        /\ result' = Ok(Log(point, base_point))
        /\ warned' = FALSE
        /\ UNCHANGED dimension

\* p1 = exp(v, p); v1 = log(p1, p); p2 = exp(v1, p), for v tangent at p.
DoRoundTrip ==
    /\ op = "idle"
    /\ \E p \in UnitPool(dimension), theta \in Thetas :
      \E u \in TangentDirs(p) :
        LET v == Scaled(theta, u)
            p1 == Exp(Single(v), Single(p))
            v1 == Log(Batch(p1.val), Single(p))
            p2 == Exp(Batch(v1), Single(p))
        IN  /\ op' = "round_trip"
            /\ args' = [tangent_vec |-> Single(v), base_point |-> Single(p),
                        theta |-> theta]
            /\ result' = Ok([exp |-> p1.val, log |-> v1, exp_log |-> p2.val])
            /\ warned' = FALSE
            /\ UNCHANGED dimension

\* sphere.projection_to_tangent_space(vector, base_point)
DoProjectionToTangentSpace ==
    /\ op = "idle"
    /\ \E vector \in ProjVectors(dimension),
       base_point \in ProjBasePoints(dimension) :
        /\ op' = "projection_to_tangent_space"
        /\ args' = [vector |-> Single(vector), base_point |-> Single(base_point)]
        /\ result' = Ok(ProjectionToTangentSpace(Single(vector),
                                                 Single(base_point)))
        /\ warned' = FALSE
        /\ UNCHANGED dimension

\* metric.parallel_transport(tangent_vec_a, tangent_vec_b, base_point)
DoParallelTransport ==
    /\ op = "idle"
    /\ \E s \in SeqsUpTo(TransportSamples(dimension), MaxBatch) :
      \E na \in 1..Len(s), nb \in 1..Len(s), np \in 1..Len(s),
         sa \in BOOLEAN, sb \in BOOLEAN, sp \in BOOLEAN :
        /\ sa => na = 1
        /\ sb => nb = 1
        /\ sp => np = 1
        /\ LET a == TransportArg(s, 2, na, sa)
               b == TransportArg(s, 3, nb, sb)
               p == TransportArg(s, 1, np, sp)
           IN  /\ op' = "parallel_transport"
               /\ args' = [tangent_vec_a |-> a, tangent_vec_b |-> b,
                           base_point |-> p]
               /\ result' = ParallelTransport(a, b, p)
        /\ warned' = FALSE
        /\ UNCHANGED dimension

\* metric.christoffels(point, point_type)
DoChristoffels ==
    /\ op = "idle"
    /\ \E point \in VecArgs(SphericalPool), point_type \in PointTypes :
        /\ op' = "christoffels"
        /\ args' = [point |-> point, point_type |-> point_type]
        /\ result' = Christoffels(dimension, point, point_type)
        /\ warned' = FALSE
        /\ UNCHANGED dimension

\* sphere.belongs(point, tolerance)
DoBelongs ==
    /\ op = "idle"
    /\ \E point \in PointArgs(dimension), tolerance \in Tolerances :
      \E same_object \in IsOutcomes(PointDim(point), dimension) :
        /\ op' = "belongs"
        /\ args' = [point |-> point, tolerance |-> tolerance]
        /\ result' = Ok(Belongs(dimension, point, tolerance))
        /\ warned' = BelongsWarns(dimension, point, same_object)
        /\ UNCHANGED dimension

\* sphere.regularize(point)
DoRegularize ==
    /\ op = "idle"
    /\ \E point \in PointArgs(dimension) :
      \E same_object \in IsOutcomes(PointDim(point), dimension) :
        /\ op' = "regularize"
        /\ args' = [point |-> point]
        /\ result' = Regularize(dimension, point)
        /\ warned' = BelongsWarns(dimension, point, same_object)
        /\ UNCHANGED dimension

\* is_pd(mat)
DoIsPd ==
    /\ op = "idle"
    /\ \E mat \in MatrixArgs :
        /\ op' = "is_pd"
        /\ args' = [mat |-> mat]
        /\ result' = IsPd(mat)
        /\ warned' = FALSE
        /\ UNCHANGED dimension

\* solve_sylvester(a, b, q), for q of the shape of a X + X b.
DoSolveSylvester ==
    /\ op = "idle"
    /\ \E x \in SylvesterArgs :
        /\ x.a.ndim = x.b.ndim
        /\ x.a.ndim = 3 => (Len(x.b.data) = Len(x.a.data)
                            /\ (x.b.data = x.a.data
                                \/ \A k \in 1..(Len(x.a.data) - 1) :
                                       x.b.data[k] = x.a.data[k]))
        /\ Len(Matrices(x.q)[1]) = Len(Matrices(x.a)[1])
        /\ Len(Matrices(x.q)[1][1]) = Len(Matrices(x.b)[1])
        /\ op' = "solve_sylvester"
        /\ args' = x
        /\ result' = SolveSylvester(x.a, x.b, x.q)
        /\ warned' = FALSE
        /\ UNCHANGED dimension

\* logm(x)
DoLogm ==
    /\ op = "idle"
    /\ \E x \in LogmArgs :
        /\ op' = "logm"
        /\ args' = [x |-> x]
        /\ result' = Logm(x)
        /\ warned' = FALSE
        /\ UNCHANGED dimension

\* The call has returned; the next call starts from the same object.
Return ==
    /\ op # "idle"
    /\ op' = "idle"
    /\ args' = <<>>
    /\ result' = Ok(<<>>)
    /\ warned' = FALSE
    /\ UNCHANGED dimension

Next ==
    \/ DoExp
    \/ DoLog
    \/ DoRoundTrip
    \/ DoProjectionToTangentSpace
    \/ DoParallelTransport
    \/ DoChristoffels
    \/ DoBelongs
    \/ DoRegularize
    \/ DoIsPd
    \/ DoSolveSylvester
    \/ DoLogm
    \/ Return

Spec == Init /\ [][Next]_vars

----------------------------------------------------------------------------
(* Properties of the calls.  Each is stated on the state a call leaves:    *)
(* its arguments in args, its outcome in result.                           *)

\* The tolerance of the properties that hold up to rounding: ten units of
\* the last place kept.
TOL == SCALE \div (10 ^ 3)

Within(a, b) == IsFin(a) /\ IsFin(b) /\ Abs(a - b) <= TOL

RowWithin(u, v) == Len(u) = Len(v) /\ \A k \in 1..Len(u) : Within(u[k], v[k])

RowsWithin(A, B) ==
    Len(A) = Len(B) /\ \A i \in 1..Len(A) : RowWithin(A[i], B[i])

IsZeroRow(u) == \A k \in 1..Len(u) : u[k] = 0

\* isclose holds on every component of the two vectors.
SamePoint(u, v) == \A k \in 1..Len(u) : IsClose(u[k], v[k])

\* C1: exp of the zero tangent vector at unit base points p, given as a
\* single point or as a batch, returns p exactly, component by component.
C1_ExpOfZeroIsBasePoint ==
    (op = "exp"
        /\ \A i \in 1..Len(args.tangent_vec.rows) :
               IsZeroRow(args.tangent_vec.rows[i]))
    => /\ result.err = "none"
       /\ Len(result.val) = Max(Len(args.tangent_vec.rows),
                                Len(args.base_point.rows))
       /\ \A i \in 1..Len(result.val) :
              result.val[i] = Bc(args.base_point.rows, i)

\* The call of C1 that fails: one zero vector at a batch of two base points.
C1_ZeroVectorAtBatch ==
    /\ op = "exp"
    /\ args.tangent_vec = Single(ZERO3)
    /\ Len(args.base_point.rows) = 2
    /\ result.err = "IndexError"

\* C2: log returns the exact zero vector for every sample in which isclose
\* holds on all components of point and base_point, whatever the value
\* coef_1 * point - coef_2 * base_point was, and returns that value
\* unchanged for every other sample.
C2_LogSamePointIsZero ==
    op = "log"
    => /\ result.err = "none"
       /\ Len(result.val) = Max(Len(args.point.rows),
                                Len(args.base_point.rows))
       /\ \A i \in 1..Len(result.val) :
              IF SamePoint(Bc(args.point.rows, i), Bc(args.base_point.rows, i))
              THEN IsZeroRow(result.val[i])
              ELSE result.val[i]
                       = LogTrig(args.point.rows, args.base_point.rows)[i]

\* A batch of C2 in which one sample is overridden although its two points
\* are not equal and its trig-derived value is not zero, and another sample
\* keeps a trig-derived value that is not zero.
C2_OverriddenSample ==
    /\ op = "log"
    /\ Len(result.val) = 2
    /\ \E i \in 1..2 :
           /\ SamePoint(Bc(args.point.rows, i), Bc(args.base_point.rows, i))
           /\ Bc(args.point.rows, i) # Bc(args.base_point.rows, i)
           /\ ~IsZeroRow(LogTrig(args.point.rows, args.base_point.rows)[i])
           /\ IsZeroRow(result.val[i])
    /\ \E i \in 1..2 :
           /\ ~SamePoint(Bc(args.point.rows, i), Bc(args.base_point.rows, i))
           /\ ~IsZeroRow(result.val[i])
           /\ \A k \in 1..Len(result.val[i]) : IsFin(result.val[i][k])

\* C3: for a unit base point p and a tangent vector v at p of any length
\* from 0 to pi, exp(log(exp(v, p), p), p) equals exp(v, p) within the
\* tolerance.
C3_ExpLogExpIsExp ==
    op = "round_trip" => RowsWithin(result.val.exp_log, result.val.exp)

\* The round trip of C3 through the antipode of the base point.
C3_AntipodalRoundTrip ==
    /\ op = "round_trip"
    /\ args.theta = PI
    /\ result.val.exp = MatNeg(args.base_point.rows)
    /\ ~RowsWithin(result.val.exp_log, result.val.exp)

\* C4, as stated: t = projection_to_tangent_space(v, p) satisfies
\* <t, p> = 0 and is returned unchanged by a second projection at p, for
\* every vector v and every nonzero base point p.
C4_ProjectionExact ==
    op = "projection_to_tangent_space"
    => /\ result.err = "none"
       /\ Dot(result.val[1], args.base_point.rows[1]) = 0
       /\ ProjectionToTangentSpace(Single(result.val[1]), args.base_point)
              = result.val

\* C4, amended: <t, p> is 0 and the second projection returns t up to
\* rounding, within the tolerance.
C4_ProjectionWithinRounding ==
    op = "projection_to_tangent_space"
    => /\ result.err = "none"
       /\ Within(Dot(result.val[1], args.base_point.rows[1]), 0)
       /\ RowsWithin(
              ProjectionToTangentSpace(Single(result.val[1]), args.base_point),
              result.val)

\* A projection of C4 at a base point that is not a unit vector, of a
\* vector that is not tangent, whose result is orthogonal to the base point
\* only up to rounding.
C4_RoundedProjection ==
    /\ op = "projection_to_tangent_space"
    /\ Dot(args.base_point.rows[1], args.base_point.rows[1]) # ONE
    /\ Dot(args.vector.rows[1], args.base_point.rows[1]) # 0
    /\ Dot(result.val[1], args.base_point.rows[1]) # 0
    /\ Within(Dot(result.val[1], args.base_point.rows[1]), 0)

\* Sample i of a call of parallel_transport has vectors a and b orthogonal
\* to its base point, and b is not zero.
TangentSample(i) ==
    /\ Dot(args.tangent_vec_a.rows[i], args.base_point.rows[i]) = 0
    /\ Dot(args.tangent_vec_b.rows[i], args.base_point.rows[i]) = 0
    /\ ~IsZeroRow(args.tangent_vec_b.rows[i])

\* The squared norm of the transported vector of sample i is that of a,
\* within the tolerance.
NormPreserved(i) ==
    Within(Dot(result.val[i], result.val[i]),
           Dot(args.tangent_vec_a.rows[i], args.tangent_vec_a.rows[i]))

\* C5, as stated: parallel_transport preserves the squared norm of the
\* transported vector for any base point and any nonzero tangent vector b,
\* a and b being tangent at the base point.
C5_TransportPreservesNorm ==
    (op = "parallel_transport" /\ result.err = "none")
    => \A i \in 1..Len(result.val) : TangentSample(i) => NormPreserved(i)

\* C5, amended: the squared norm is preserved for any base point of norm 1
\* and any a and nonzero b tangent at it.
C5_TransportPreservesNormOnSphere ==
    (op = "parallel_transport" /\ result.err = "none")
    => \A i \in 1..Len(result.val) :
           (TangentSample(i)
               /\ Dot(args.base_point.rows[i], args.base_point.rows[i]) = ONE)
           => NormPreserved(i)

\* A transport of C5 at a unit base point that turns a towards the base
\* point: a has a component along b and the result is not a.
C5_TransportedOnSphere ==
    /\ op = "parallel_transport"
    /\ result.err = "none"
    /\ \E i \in 1..Len(result.val) :
           /\ TangentSample(i)
           /\ Dot(args.base_point.rows[i], args.base_point.rows[i]) = ONE
           /\ Dot(args.tangent_vec_a.rows[i], args.tangent_vec_b.rows[i]) # 0
           /\ Dot(result.val[i], args.base_point.rows[i]) # 0
           /\ NormPreserved(i)

\* C6: parallel_transport fails, with no result, whenever the batch lengths
\* of its three arguments are not all equal, a batch of one included; with
\* equal lengths it returns one vector per sample.
C6_TransportNeedsEqualLengths ==
    op = "parallel_transport"
    => IF /\ Len(args.base_point.rows) = Len(args.tangent_vec_a.rows)
          /\ Len(args.tangent_vec_a.rows) = Len(args.tangent_vec_b.rows)
       THEN /\ result.err = "none"
            /\ Len(result.val) = Len(args.base_point.rows)
       ELSE /\ result.err = "AssertionError"
            /\ result.val = <<>>

\* A call of C6 refused although its lengths would broadcast: a single
\* vector a against batches of two.
C6_SingleAgainstBatchRefused ==
    /\ op = "parallel_transport"
    /\ args.tangent_vec_a.rank = 1
    /\ Len(args.tangent_vec_b.rows) = 2
    /\ Len(args.base_point.rows) = 2
    /\ result.err = "AssertionError"

\* The factorization of matrix m fails with the message of a matrix that
\* is not positive definite.
FailsNotPd(m, dtype) ==
    /\ Cholesky(m, dtype).err = "LinAlgError"
    /\ Cholesky(m, dtype).msg = NOT_PD

\* C7: is_pd gives True for a square matrix whose factorization succeeds,
\* False for one whose factorization fails as not positive definite, and
\* raises any other failure unmodified; False for a matrix that is not
\* square; for a batch, one boolean per matrix, or the failure of the
\* first matrix that fails otherwise and no sequence.
C7_IsPdClassifies ==
    op = "is_pd"
    => LET mat == args.mat
       IN  /\ (mat.ndim = 2 /\ mat.shape[1] = mat.shape[2])
              => /\ Cholesky(mat.data, mat.dtype).err = "none"
                    => result = Ok(TRUE)
                 /\ FailsNotPd(mat.data, mat.dtype) => result = Ok(FALSE)
                 /\ (/\ Cholesky(mat.data, mat.dtype).err # "none"
                     /\ ~FailsNotPd(mat.data, mat.dtype))
                    => result = Cholesky(mat.data, mat.dtype)
           /\ (mat.ndim = 2 /\ mat.shape[1] # mat.shape[2])
              => result = Ok(FALSE)
           /\ (mat.ndim = 3 /\ mat.shape[2] = mat.shape[3])
              => IF \A k \in 1..Len(mat.data) :
                        \/ Cholesky(mat.data[k], mat.dtype).err = "none"
                        \/ FailsNotPd(mat.data[k], mat.dtype)
                 THEN /\ result.err = "none"
                      /\ Len(result.val) = mat.shape[1]
                      /\ \A k \in 1..Len(mat.data) :
                             result.val[k]
                                 = (Cholesky(mat.data[k], mat.dtype).err = "none")
                 ELSE /\ result.err # "none"
                      /\ result.val = <<>>
                      /\ \E k \in 1..Len(mat.data) :
                             /\ result = Cholesky(mat.data[k], mat.dtype)
                             /\ \A h \in 1..(k - 1) :
                                    \/ Cholesky(mat.data[h], mat.dtype).err = "none"
                                    \/ FailsNotPd(mat.data[h], mat.dtype)
           /\ (mat.ndim = 3 /\ mat.shape[2] # mat.shape[3])
              => /\ result.err = "none"
                 /\ Len(result.val) = mat.shape[1]
                 /\ \A k \in 1..Len(result.val) : result.val[k] = FALSE

\* A batch of C7 with a positive definite matrix followed by one that is
\* not.
C7_MixedBatch ==
    /\ op = "is_pd"
    /\ args.mat.ndim = 3
    /\ args.mat.dtype = "float64"
    /\ result = Ok(<<TRUE, FALSE>>)

\* C8: belongs never raises; on a point whose trailing dimension is not
\* dimension + 1 it returns False, and warns exactly when that dimension
\* is the intrinsic dimension; otherwise it returns per sample whether
\* |<p, p> - 1| <= tolerance, equality included, without a warning.
C8_BelongsWarnsOnIntrinsicDimension ==
    op = "belongs"
    => /\ result.err = "none"
       /\ IF PointDim(args.point) # dimension + 1
          THEN /\ result.val = <<FALSE>>
               /\ warned <=> PointDim(args.point) = dimension
          ELSE /\ ~warned
               /\ Len(result.val) = Len(args.point.rows)
               /\ \A i \in 1..Len(result.val) :
                      result.val[i]
                          <=> LessEqual(
                                  AbsF(Sub(Dot(args.point.rows[i],
                                               args.point.rows[i]), ONE)),
                                  args.tolerance)

\* The call of C8 that fails: a point in intrinsic coordinates, and no
\* warning.
C8_NoWarning ==
    /\ op = "belongs"
    /\ PointDim(args.point) = dimension
    /\ result.val = <<FALSE>>
    /\ ~warned

\* C9: regularize fails with an assertion error, returning nothing, when
\* the point has the wrong dimension or some sample is off the sphere;
\* otherwise it returns each sample divided by its norm.
C9_RegularizeChecksBelongs ==
    op = "regularize"
    => IF /\ PointDim(args.point) = dimension + 1
          /\ \A i \in 1..Len(args.point.rows) :
                 LessEqual(AbsF(Sub(Dot(args.point.rows[i],
                                        args.point.rows[i]), ONE)),
                           TOLERANCE)
       THEN /\ result.err = "none"
            /\ Len(result.val) = Len(args.point.rows)
            /\ \A i \in 1..Len(result.val) :
                   LET norm == Sqrt(Dot(args.point.rows[i],
                                        args.point.rows[i]))
                   IN  /\ Len(result.val[i]) = Len(args.point.rows[i])
                       /\ \A k \in 1..Len(result.val[i]) :
                              result.val[i][k]
                                  = Div(args.point.rows[i][k], norm)
       ELSE /\ result.err = "AssertionError"
            /\ result.val = <<>>

\* A call of C9 on a batch in the right dimension whose first sample is on
\* the sphere and whose second is not.
C9_OneSampleOffSphere ==
    /\ op = "regularize"
    /\ PointDim(args.point) = dimension + 1
    /\ Len(args.point.rows) = 2
    /\ Dot(args.point.rows[1], args.point.rows[1]) = ONE
    /\ Dot(args.point.rows[2], args.point.rows[2]) # ONE
    /\ result.err = "AssertionError"

\* C10: christoffels fails with NotImplementedError, whatever the point,
\* unless the dimension is 2 and the point type 'spherical'; otherwise it
\* returns for each sample (theta, phi) a 2x2x2 tensor whose entry [0][1][1]
\* is -sin(theta) * cos(theta), whose entries [1][0][1] and [1][1][0] are
\* cos(theta) / sin(theta), and whose other entries are 0.
C10_Christoffels ==
    op = "christoffels"
    => IF dimension # 2 \/ args.point_type # "spherical"
       THEN /\ result.err = "NotImplementedError"
            /\ result.val = <<>>
       ELSE (\A i \in 1..Len(args.point.rows) : Len(args.point.rows[i]) = 2)
            => /\ result.err = "none"
               /\ Len(result.val) = Len(args.point.rows)
               /\ \A i \in 1..Len(result.val) :
                      LET theta == args.point.rows[i][1]
                          g == result.val[i]
                      IN  /\ Len(g) = 2
                          /\ \A c \in 1..2 :
                                 Len(g[c]) = 2
                                     /\ \A a \in 1..2 : Len(g[c][a]) = 2
                          /\ g[1][2][2] = Mul(Neg(Sin(theta)), Cos(theta))
                          /\ g[2][1][2] = Div(Cos(theta), Sin(theta))
                          /\ g[2][2][1] = Div(Cos(theta), Sin(theta))
                          /\ g[1][1][1] = 0
                          /\ g[1][1][2] = 0
                          /\ g[1][2][1] = 0
                          /\ g[2][1][1] = 0
                          /\ g[2][2][2] = 0

\* A call of C10 on the 2-sphere that returns two tensors, the first with
\* entries that are not zero.
C10_TwoTensors ==
    /\ op = "christoffels"
    /\ result.err = "none"
    /\ Len(result.val) = 2
    /\ result.val[1][1][2][2] # 0
    /\ result.val[1][2][1][2] # 0

\* The projected tangent vectors of a call of exp and their norms, one per
\* sample of the broadcast batch.
ExpProjected ==
    ProjectionToTangentSpace(Batch(args.tangent_vec.rows),
                             Batch(args.base_point.rows))

\* The sample exp owes for a norm theta, a base point p and a projected
\* tangent vector w: the Taylor coefficients when isclose(theta, 0) holds,
\* cos(theta) and sin(theta) / theta otherwise, never the initial zeros.
ExpSample(theta, p, w) ==
    LET coef_1 == IF IsClose(theta, 0) THEN ExpTaylor1(theta) ELSE Cos(theta)
        coef_2 == IF IsClose(theta, 0) THEN ExpTaylor2(theta)
                  ELSE Div(Sin(theta), theta)
    IN  Arr([k \in 1..Len(p) |-> Add(Mul(coef_1, p[k]), Mul(coef_2, w[k]))])

\* C11: for batches of tangent vectors and base points whose lengths are
\* equal or of which one is 1, exp returns max(n_tangent, n_base) samples,
\* and every sample has its two coefficients from exactly one branch: the
\* Taylor branch when isclose(theta, 0) holds for the norm theta of its
\* projected tangent vector, the exact branch otherwise.
C11_ExpBranchesPartitionBatch ==
    op = "exp"
    => /\ result.err = "none"
       /\ Len(result.val) = Max(Len(args.tangent_vec.rows),
                                Len(args.base_point.rows))
       /\ \A i \in 1..Len(result.val) :
              result.val[i]
                  = ExpSample(Sqrt(Dot(ExpProjected[i], ExpProjected[i])),
                              Bc(args.base_point.rows, i), ExpProjected[i])

\* The call of C11 that fails: one tangent vector that is not zero against
\* a batch of two base points, a broadcast the lengths allow.
C11_SingleVectorAtBatch ==
    /\ op = "exp"
    /\ Len(args.tangent_vec.rows) = 1
    /\ ~IsZeroRow(args.tangent_vec.rows[1])
    /\ Len(args.base_point.rows) = 2
    /\ args.base_point.rows[1] # args.base_point.rows[2]
    /\ result.err = "IndexError"

\* The conditions of the eigen-decomposition path of solve_sylvester other
\* than that on the eigenvalues: a equals b elementwise and every matrix of
\* a is symmetric within 1e-12.
SylvesterSameSymmetric ==
    /\ args.a.shape = args.b.shape
    /\ \A k \in 1..Len(Matrices(args.a)) :
           \A i \in 1..Len(Matrices(args.a)[k]) :
               \A j \in 1..Len(Matrices(args.a)[k]) :
                   /\ Matrices(args.a)[k][i][j] = Matrices(args.b)[k][i][j]
                   /\ LessTol(AbsF(Sub(Matrices(args.a)[k][i][j],
                                       Matrices(args.a)[k][j][i])),
                              IS_SYMMETRIC_TOL)

\* Every eigenvalue of every matrix of a is >= the tolerance t.
SylvesterEigenvaluesFrom(t) ==
    \A k \in 1..Len(Matrices(args.a)) :
        \A i \in 1..Len(Matrices(args.a)[k]) :
            GreaterEqualTol(Eigh(Matrices(args.a)[k]).eigvals[i], t)

\* No sum of two eigenvalues of a matrix of a is zero.
SylvesterDivisorsNonZero ==
    \A k \in 1..Len(Matrices(args.a)) :
        \A i \in 1..Len(Matrices(args.a)[k]) :
            \A j \in 1..Len(Matrices(args.a)[k]) :
                Add(Eigh(Matrices(args.a)[k]).eigvals[i],
                    Eigh(Matrices(args.a)[k]).eigvals[j]) # 0

\* The result of the call agrees with that of the general solver, matrix
\* by matrix, within the tolerance.
SylvesterAgreesWithGeneral ==
    /\ Len(Matrices([args.a EXCEPT !.data = result.val]))
           = Len(Matrices(args.a))
    /\ \A k \in 1..Len(Matrices(args.a)) :
           RowsWithin(Matrices([args.a EXCEPT !.data = result.val])[k],
                      SylvesterGeneral(Matrices(args.a)[k],
                                       Matrices(args.b)[k],
                                       Matrices(args.q)[k]))

\* solve_sylvester takes the eigen path exactly when a equals b, a is
\* symmetric and its eigenvalues are >= t, and the general solver in every
\* other case; on the eigen path no divisor is zero and the result agrees
\* with that of the general solver.
SylvesterPathFrom(t) ==
    /\ result.err = "none"
    /\ result.path
           = (IF SylvesterSameSymmetric /\ SylvesterEigenvaluesFrom(t)
              THEN "eigh" ELSE "general")
    /\ result.path = "eigh"
       => (SylvesterDivisorsNonZero /\ SylvesterAgreesWithGeneral)

\* C12, as stated: solve_sylvester(a, b, q) takes the eigen-decomposition
\* path exactly when a equals b elementwise, a is symmetric within 1e-12
\* and every eigenvalue of a is >= -1e-12, and the general solver
\* otherwise; on the eigen path no pairwise eigenvalue sum is zero and the
\* result agrees with the general solver's.
C12_SylvesterPathFromMinusTol ==
    op = "solve_sylvester"
    => SylvesterPathFrom([num |-> -1, exp |-> 12])

\* C12, amended: the same with every eigenvalue of a >= 1e-12.
C12_SylvesterPathFromTol ==
    op = "solve_sylvester" => SylvesterPathFrom([num |-> 1, exp |-> 12])

\* A call of C12 on the eigen path: a batch a = b of two different positive
\* definite matrices, one of them not diagonal, whose result is not zero
\* and agrees with the general solver's.
C12_EigenPathBatch ==
    /\ op = "solve_sylvester"
    /\ args.a.ndim = 3
    /\ Len(args.a.data) = 2
    /\ args.a.data[1] # args.a.data[2]
    /\ \E k \in 1..2 : args.a.data[k][2][1] # 0
    /\ result.path = "eigh"
    /\ \A k \in 1..2 : result.val[k][1][2] # 0
    /\ SylvesterAgreesWithGeneral

\* The matrix returned for matrix k of the argument of logm.
LogmResult(k) ==
    IF result.val.ndim = 2 THEN result.val.data ELSE result.val.data[k]

\* C13: logm chooses its branch once for the whole batch: the eigen
\* shortcut V diag(log(eigvals)) V^T for every matrix when every matrix is
\* symmetric within 1e-12 and every eigenvalue of every matrix is > 0; the
\* general principal logarithm for every matrix, the symmetric positive
\* definite ones included, as soon as one matrix is not symmetric or has an
\* eigenvalue <= 0.  A single matrix gives a single matrix, and a batch
\* gives a batch of the same length.
C13_LogmChoosesBranchOnce ==
    op = "logm"
    => /\ result.err = "none"
       /\ result.path
              = (IF \A k \in 1..Len(Matrices(args.x)) :
                        /\ \A i \in 1..2 : \A j \in 1..2 :
                               (i <= Len(Matrices(args.x)[k])
                                   /\ j <= Len(Matrices(args.x)[k]))
                               => LessTol(AbsF(Sub(Matrices(args.x)[k][i][j],
                                                   Matrices(args.x)[k][j][i])),
                                          IS_SYMMETRIC_TOL)
                        /\ \A i \in 1..Len(Matrices(args.x)[k]) :
                               Eigh(Matrices(args.x)[k]).eigvals[i] > 0
                 THEN "eigh" ELSE "general")
       /\ result.val.ndim = args.x.ndim
       /\ result.val.shape = args.x.shape
       /\ \A k \in 1..Len(Matrices(args.x)) :
              LogmResult(k)
                  = (IF result.path = "eigh"
                     THEN MatMul(MatMul(Eigh(Matrices(args.x)[k]).eigvecs,
                                        Diag(Arr([i \in 1..Len(Matrices(args.x)[k])
                                            |-> Ln(Eigh(Matrices(args.x)[k])
                                                       .eigvals[i])]))),
                                 Transpose(Eigh(Matrices(args.x)[k]).eigvecs))
                     ELSE LogmGeneral(Matrices(args.x)[k]))

\* A batch of C13 whose first matrix is symmetric positive definite and
\* whose second is not symmetric: both go through the general algorithm,
\* and the first comes out different, by rounding, from what the eigen
\* shortcut gives for it.
C13_MixedBatchGoesGeneral ==
    /\ op = "logm"
    /\ args.x.ndim = 3
    /\ Len(args.x.data) = 2
    /\ LogmUsesEigh(Matrix(args.x.data[1]))
    /\ args.x.data[2][1][2] # args.x.data[2][2][1]
    /\ result.path = "general"
    /\ result.val.ndim = 3
    /\ result.val.data[1] # LogmEigh(args.x.data[1])
    /\ RowsWithin(result.val.data[1], LogmEigh(args.x.data[1]))

====
